---------------------------- MODULE Spec2Model ----------------------------
(***************************************************************************)
(* A state-machine model of the relay pipeline of the aquarium bot:        *)
(*   - handleMessageCreate  (events/messageCreate.ts, src/unnamed/part_000)*)
(*   - ModerationService    (services/moderation.ts,  src/unnamed/part_009)*)
(*   - WebhookService       (src/src/services/developerService.ts:805..)   *)
(*   - subscription limits  (src/src/config/subscriptions.ts)              *)
(*                                                                         *)
(* One guild (tenant) and one member are modelled.  A handler invocation   *)
(* is a process whose steps are the awaits of the handler: between two     *)
(* awaits the code runs without interruption, at an await any other        *)
(* invocation may run.  Time is counted in minutes.                         *)
(***************************************************************************)
EXTENDS Integers, Sequences, FiniteSets, TLC

VARIABLES
    clock,          \* Date.now(), in minutes since local midnight of day 0
    tz,             \* the host's time zone: "fixed", "spring" or "autumn"
    guildConfig,    \* the GuildConfig row of the guild
    verifiedUser,   \* the VerifiedUser row of (member, guild)
    globalUser,     \* the User row of the member
    usageLog,       \* the UsageLog table (append only)
    immersionBan,   \* the ImmersionBan rows of (guild, member)
    immersionWarning, \* the ImmersionWarning rows of (guild, member)
    moderationLog,  \* the ModerationLog table (append only)
    ev,             \* the handler invocations: locals and position
    mod,            \* the calls of ModerationService: locals and position
    delivered,      \* webhook messages sent: <<event, language>>
    webhookClients, \* WebhookService.webhookClients, in insertion order
    sending,        \* a sendTranslatedMessage call: its locals and position
    checking        \* a checkNewAchievements call: arguments and result

vars == <<clock, tz, guildConfig, verifiedUser, globalUser, usageLog,
          immersionBan, immersionWarning, moderationLog, ev, mod, delivered,
          webhookClients, sending, checking>>

----------------------------------------------------------------------------
(* Bounds of the model *)

NumEvents == 2        \* handler invocations
NumCalls == 2         \* calls of ModerationService
MaxLen == 2           \* message.content.length ranges over 1..MaxLen
NumLanguages == 3     \* the first NumLanguages entries of LANGUAGES are kept
LastDay == 2          \* the calendar window is days 0..LastDay

Events == 1..NumEvents
Calls == 1..NumCalls

Null == <<>>
Some(x) == <<x>>
Val(o) == o[1]

Max(a, b) == IF a >= b THEN a ELSE b

----------------------------------------------------------------------------
(* config/languages.ts *)

LanguageCodes == <<"EN", "ES", "PT-BR", "FR", "DE", "IT", "JA", "KO", "ZH">>

\* Object.values(LANGUAGES), in declaration order
LanguageList == SubSeq(LanguageCodes, 1, NumLanguages)

LANGUAGES == {LanguageList[i] : i \in 1..NumLanguages}

\* getOtherLanguages(excludeCode): every language but the given one, in order
getOtherLanguages(excludeCode) ==
    SelectSeq(LanguageList, LAMBDA l : l /= excludeCode)

\* the webhook id stored for a language's channel (one credential pair each)
WebhookIdOf(lang) == CHOOSE i \in 1..NumLanguages : LanguageList[i] = lang

----------------------------------------------------------------------------
(* The host calendar.  Day d starts at DayStart(d).  The last day of the    *)
(* window is the 1st of a month; the day before it is the one on which a   *)
(* zone with daylight saving changes its offset (23 hours long in spring,  *)
(* 25 in autumn), as the last Sunday of March or October may be.           *)

MinutesPerHour == 60
MinutesPerDay == 24 * MinutesPerHour    \* 1000 * 60 * 60 * 24 ms
HalfDay == MinutesPerDay \div 2

TransitionDay == LastDay - 1
MonthFirstDay == LastDay

DayLen(d) ==
    IF d = TransitionDay /\ tz = "spring" THEN MinutesPerDay - MinutesPerHour
    ELSE IF d = TransitionDay /\ tz = "autumn" THEN MinutesPerDay + MinutesPerHour
    ELSE MinutesPerDay

RECURSIVE DayStart(_)
DayStart(d) == IF d <= 0 THEN 0 ELSE DayStart(d - 1) + DayLen(d - 1)

DayOf(t) == CHOOSE d \in 0..LastDay : DayStart(d) <= t /\ t < DayStart(d + 1)

\* d.setHours(0, 0, 0, 0): local midnight of the day of t
setHoursZero(t) == DayStart(DayOf(t))

\* new Date(now.getFullYear(), now.getMonth(), 1)
startOfMonthOf(t) ==
    IF t >= DayStart(MonthFirstDay) THEN DayStart(MonthFirstDay)
    ELSE DayStart(0) - 30 * MinutesPerDay

----------------------------------------------------------------------------
(* config/subscriptions.ts *)

FREE_PER_USER == 5000
FREE_PER_GUILD == 25000
PRO_PER_USER == 25000
PRO_PER_GUILD == 150000
PREMIUM_PER_USER == 100000
PREMIUM_PER_GUILD == 500000
USER_FREE_PER_USER == 5000
USER_PRO_PER_USER == 25000
USER_PREMIUM_PER_USER == 100000

Tiers == {"free", "pro", "premium"}

\* SUBSCRIPTION_TIERS[tier]?.limits ?? SUBSCRIPTION_TIERS.free.limits
getTierLimits(tier) ==
    CASE tier = "pro" -> [perUser |-> PRO_PER_USER, perGuild |-> PRO_PER_GUILD]
      [] tier = "premium" ->
            [perUser |-> PREMIUM_PER_USER, perGuild |-> PREMIUM_PER_GUILD]
      [] OTHER -> [perUser |-> FREE_PER_USER, perGuild |-> FREE_PER_GUILD]

\* USER_SUBSCRIPTION_TIERS[tier]?.limits ?? USER_SUBSCRIPTION_TIERS.free.limits
UserTierLimits(tier) ==
    CASE tier = "pro" -> [perUser |-> USER_PRO_PER_USER, perGuild |-> 0]
      [] tier = "premium" -> [perUser |-> USER_PREMIUM_PER_USER, perGuild |-> 0]
      [] OTHER -> [perUser |-> USER_FREE_PER_USER, perGuild |-> 0]

\* an effective limit that adds the two allowances
getEffectiveUserLimit_Sum(userTier, guildTier) ==
    UserTierLimits(userTier).perUser + getTierLimits(guildTier).perUser

getEffectiveUserLimit(userTier, guildTier) ==
    Max(UserTierLimits(userTier).perUser, getTierLimits(guildTier).perUser)

----------------------------------------------------------------------------
(* config/achievements.ts *)

ACHIEVEMENTS == <<
    [id |-> "first_words",         type |-> "translations", value |-> 1],
    [id |-> "getting_started",     type |-> "translations", value |-> 10],
    [id |-> "conversationalist",   type |-> "translations", value |-> 50],
    [id |-> "chatterbox",          type |-> "translations", value |-> 100],
    [id |-> "polyglot_apprentice", type |-> "translations", value |-> 500],
    [id |-> "polyglot_master",     type |-> "translations", value |-> 1000],
    [id |-> "language_legend",     type |-> "translations", value |-> 5000],
    [id |-> "streak_starter",      type |-> "streak",       value |-> 3],
    [id |-> "week_warrior",        type |-> "streak",       value |-> 7],
    [id |-> "dedicated_learner",   type |-> "streak",       value |-> 14],
    [id |-> "monthly_master",      type |-> "streak",       value |-> 30],
    [id |-> "unstoppable",         type |-> "streak",       value |-> 100],
    [id |-> "wordsmith",           type |-> "characters",   value |-> 10000],
    [id |-> "author",              type |-> "characters",   value |-> 50000],
    [id |-> "novelist",            type |-> "characters",   value |-> 100000] >>

Includes(s, x) == \E i \in 1..Len(s) : s[i] = x

\* an achievement that takes more than its threshold
Earned_Above(a, stats) ==
    CASE a.type = "translations" -> stats.translations > a.value
      [] a.type = "streak" -> stats.streak > a.value
      [] a.type = "characters" -> stats.characters > a.value
      [] OTHER -> FALSE

\* the achievement is earned by the stats on its own axis
Earned(a, stats) ==
    CASE a.type = "translations" -> stats.translations >= a.value
      [] a.type = "streak" -> stats.streak >= a.value
      [] a.type = "characters" -> stats.characters >= a.value
      [] OTHER -> FALSE

\* the loop of checkNewAchievements over a list of definitions
NewAchievements(list, currentAchievements, stats) ==
    SelectSeq(list,
              LAMBDA a : ~Includes(currentAchievements, a.id)
                             /\ Earned(a, stats))

checkNewAchievements(currentAchievements, stats) ==
    NewAchievements(ACHIEVEMENTS, currentAchievements, stats)

\* the arguments and the result of a checkNewAchievements call that is not
\* running; k and reversed tell the order of the definition list
IdleCheck ==
    [pc |-> "idle", currentAchievements |-> <<>>,
     stats |-> [translations |-> 0, streak |-> 0, characters |-> 0],
     k |-> 0, reversed |-> FALSE, newAchievements |-> <<>>]

Ids(as) == [i \in 1..Len(as) |-> as[i].id]

----------------------------------------------------------------------------
(* services/webhook.ts: the cache of webhook clients.  The Map is a        *)
(* sequence of [key, lastUsed] in insertion order.                         *)

WEBHOOK_CACHE_MAX_SIZE == 100
WEBHOOK_CACHE_TTL == 30           \* WEBHOOK_CACHE_TTL_MS, in minutes

CacheKeys(cache) == {cache[i].key : i \in 1..Len(cache)}

CacheIndex(cache, key) == CHOOSE i \in 1..Len(cache) : cache[i].key = key

RemoveAt(s, i) == SubSeq(s, 1, i - 1) \o SubSeq(s, i + 1, Len(s))

\* the loop of evictOldestClient from entry i on: oldestKey is Null while
\* oldestTime is Infinity
RECURSIVE OldestKey(_, _, _, _)
OldestKey(cache, i, oldestKey, oldestTime) ==
    IF i > Len(cache) THEN oldestKey
    ELSE IF oldestKey = Null \/ cache[i].lastUsed < oldestTime
    THEN OldestKey(cache, i + 1, Some(cache[i].key), cache[i].lastUsed)
    ELSE OldestKey(cache, i + 1, oldestKey, oldestTime)

\* an eviction in insertion order, whatever the time of last use
evictOldestClient_First(cache) ==
    IF Len(cache) = 0 THEN cache ELSE RemoveAt(cache, 1)

evictOldestClient(cache) ==
    LET oldestKey == OldestKey(cache, 1, Null, 0)
    IN  IF oldestKey = Null THEN cache
        ELSE RemoveAt(cache, CacheIndex(cache, Val(oldestKey)))

\* the cache after getWebhookClient(webhookId, webhookToken) at time now
getWebhookClient(cache, key, now) ==
    IF key \in CacheKeys(cache)
    THEN [cache EXCEPT ![CacheIndex(cache, key)].lastUsed = now]
    ELSE Append(IF Len(cache) >= WEBHOOK_CACHE_MAX_SIZE
                THEN evictOldestClient(cache) ELSE cache,
                [key |-> key, lastUsed |-> now])

\* the cache after cleanupExpiredClients() at time now
\* a sweep that also takes the clients used exactly the TTL ago
cleanupExpiredClients_AtTtl(cache, now) ==
    SelectSeq(cache, LAMBDA c : ~(now - c.lastUsed >= WEBHOOK_CACHE_TTL))

cleanupExpiredClients(cache, now) ==
    SelectSeq(cache, LAMBDA c : ~(now - c.lastUsed > WEBHOOK_CACHE_TTL))

\* the cache after a send failed with code 10015 (Unknown Webhook)
DropClient_Keeps(cache, key) == cache

DropClient(cache, key) ==
    IF key \in CacheKeys(cache) THEN RemoveAt(cache, CacheIndex(cache, key))
    ELSE cache

----------------------------------------------------------------------------
(* services/moderation.ts: the ban rows and the reads of them *)

\* updateMany({active: true, expiresAt: {lte: now}}, {active: false})
SweepExpired(bans, now) ==
    [i \in 1..Len(bans) |->
        IF bans[i].active /\ bans[i].expiresAt /= Null
           /\ Val(bans[i].expiresAt) <= now
        THEN [bans[i] EXCEPT !.active = FALSE]
        ELSE bans[i]]

\* a lookup that sees permanent bans only
ActiveBans_PermanentOnly(bans) ==
    {i \in 1..Len(bans) : bans[i].active /\ bans[i].expiresAt = Null}

\* findFirst({where: {active: true}}): the rows it can return
ActiveBans(bans) == {i \in 1..Len(bans) : bans[i].active}

\* a lookup that never finds a row
findFirst_None(rows) == 0

\* findFirst returns a row or null: the id of the row (0 for null)
findFirst(rows) == IF rows = {} THEN 0 ELSE CHOOSE i \in rows : \A j \in rows : i <= j

\* the locals of a call that has not started; active is what a read reports
IdleCall ==
    [op |-> "", pc |-> "idle", duration |-> Null, existingBan |-> 0,
     expiresAt |-> Null, success |-> FALSE, active |-> {},
     warningId |-> 0, warningCount |-> 0, notified |-> "none"]

Returns(ok, active) ==
    [IdleCall EXCEPT !.pc = "done", !.success = ok, !.active = active]

\* the durations a caller passes, in minutes
Durations == {0, MinutesPerDay}

\* banUser (permanent), timeoutUser, unbanUser, getBanStatus or getGuildBans
\* is called: each begins with the updateMany that expires outdated bans
Call(c) ==
    /\ mod[c].pc = "idle"
    /\ \A d \in Calls : d < c => mod[d].pc /= "idle"
    /\ \/ \E op \in {"ban", "unban", "status", "guildBans"} :
             mod' = [mod EXCEPT ![c] = [IdleCall EXCEPT !.op = op,
                                                        !.pc = "updateMany"]]
       \/ \E duration \in Durations :
             mod' = [mod EXCEPT ![c] =
                       [IdleCall EXCEPT !.op = "timeout", !.pc = "updateMany",
                                        !.duration = Some(duration)]]
    /\ UNCHANGED <<clock, tz, guildConfig, verifiedUser, globalUser, usageLog,
                   immersionBan, moderationLog, ev, delivered, webhookClients,
                   sending, immersionWarning, checking>>

\* getModerationHistory: the three findMany, with no sweep before them
GetModerationHistory(c) ==
    /\ mod[c].pc = "idle"
    /\ \A d \in Calls : d < c => mod[d].pc /= "idle"
    /\ mod' = [mod EXCEPT ![c] = Returns(TRUE, ActiveBans(immersionBan))]
    /\ UNCHANGED <<clock, tz, guildConfig, verifiedUser, globalUser, usageLog,
                   immersionBan, moderationLog, ev, delivered, webhookClients,
                   sending, immersionWarning, checking>>

\* "First, expire any outdated bans"
ExpireOutdated(c) ==
    /\ mod[c].pc = "updateMany"
    /\ immersionBan' = SweepExpired(immersionBan, clock)
    /\ mod' = [mod EXCEPT ![c].pc = "find"]
    /\ UNCHANGED <<clock, tz, guildConfig, verifiedUser, globalUser, usageLog,
                   moderationLog, ev, delivered, webhookClients, sending,
                   immersionWarning, checking>>

\* getBanStatus and getGuildBans return the active rows they find
ReadActive(c) ==
    /\ mod[c].pc = "find"
    /\ mod[c].op \in {"status", "guildBans"}
    /\ mod' = [mod EXCEPT ![c] =
                 IF mod[c].op = "status"
                 THEN Returns(TRUE, {findFirst(ActiveBans(immersionBan))}
                                        \ {0})
                 ELSE Returns(TRUE, ActiveBans(immersionBan))]
    /\ UNCHANGED <<clock, tz, guildConfig, verifiedUser, globalUser, usageLog,
                   immersionBan, moderationLog, ev, delivered, webhookClients,
                   sending, immersionWarning, checking>>

\* banUser after getActiveBan: "already banned", or the expiration is computed
FindBeforeBan(c) ==
    /\ mod[c].pc = "find"
    /\ mod[c].op \in {"ban", "timeout"}
    /\ mod' = [mod EXCEPT ![c] =
                 IF findFirst(ActiveBans(immersionBan)) /= 0
                 THEN Returns(FALSE, {})
                 ELSE [mod[c] EXCEPT
                          !.pc = "create",
                          !.expiresAt =
                              IF mod[c].duration /= Null
                                 /\ Val(mod[c].duration) /= 0
                              THEN Some(clock + Val(mod[c].duration))
                              ELSE Null]]
    /\ UNCHANGED <<clock, tz, guildConfig, verifiedUser, globalUser, usageLog,
                   immersionBan, moderationLog, ev, delivered, webhookClients,
                   sending, immersionWarning, checking>>

\* prisma.immersionBan.create
CreateBan(c) ==
    /\ mod[c].pc = "create"
    /\ immersionBan' = Append(immersionBan,
                              [active |-> TRUE, expiresAt |-> mod[c].expiresAt])
    /\ mod' = [mod EXCEPT ![c].pc = "log"]
    /\ UNCHANGED <<clock, tz, guildConfig, verifiedUser, globalUser, usageLog,
                   moderationLog, ev, delivered, webhookClients, sending,
                   immersionWarning, checking>>

\* unbanUser after getActiveBan: "not banned", or the row to update is known
FindBeforeUnban(c) ==
    /\ mod[c].pc = "find"
    /\ mod[c].op = "unban"
    /\ mod' = [mod EXCEPT ![c] =
                 IF findFirst(ActiveBans(immersionBan)) = 0
                 THEN Returns(FALSE, {})
                 ELSE [mod[c] EXCEPT
                          !.pc = "update",
                          !.existingBan =
                              findFirst(ActiveBans(immersionBan))]]
    /\ UNCHANGED <<clock, tz, guildConfig, verifiedUser, globalUser, usageLog,
                   immersionBan, moderationLog, ev, delivered, webhookClients,
                   sending, immersionWarning, checking>>

\* prisma.immersionBan.update({where: {id: existingBan.id}, active: false})
UpdateBan(c) ==
    /\ mod[c].pc = "update"
    /\ immersionBan' = [immersionBan EXCEPT
                           ![mod[c].existingBan].active = FALSE]
    /\ mod' = [mod EXCEPT ![c].pc = "log"]
    /\ UNCHANGED <<clock, tz, guildConfig, verifiedUser, globalUser, usageLog,
                   moderationLog, ev, delivered, webhookClients, sending,
                   immersionWarning, checking>>

\* a row of ImmersionWarning
Warning(active) == [active |-> active]

\* the action that an operation hands to logAction
ActionOf(op) ==
    CASE op = "unban" -> "unban"
      [] op = "warn" -> "warn"
      [] op = "clearWarnings" -> "clear_warnings"
      [] op = "removeWarning" -> "remove_warning"
      [] OTHER -> "ban"

\* the ids of warnings that removeWarning is called with
WarningIds == {1, 3}

\* the active warnings of the member
ActiveWarnings(rows) == {i \in 1..Len(rows) : rows[i].active}

\* warnUser, clearWarnings or removeWarning is called
CallWarnings(c) ==
    /\ mod[c].pc = "idle"
    /\ \A d \in Calls : d < c => mod[d].pc /= "idle"
    /\ \/ \E op \in {"warn", "clearWarnings"} :
             mod' = [mod EXCEPT ![c] = [IdleCall EXCEPT !.op = op, !.pc = op]]
       \/ \E warningId \in WarningIds :
             mod' = [mod EXCEPT ![c] =
                       [IdleCall EXCEPT !.op = "removeWarning",
                                        !.pc = "findUnique",
                                        !.warningId = warningId]]
    /\ UNCHANGED <<clock, tz, guildConfig, verifiedUser, globalUser, usageLog,
                   immersionBan, immersionWarning, moderationLog, ev,
                   delivered, webhookClients, sending, checking>>

\* warnUser: prisma.immersionWarning.create
CreateWarning(c) ==
    /\ mod[c].pc = "warn"
    /\ immersionWarning' = Append(immersionWarning, Warning(TRUE))
    /\ mod' = [mod EXCEPT ![c].pc = "log"]
    /\ UNCHANGED <<clock, tz, guildConfig, verifiedUser, globalUser, usageLog,
                   immersionBan, moderationLog, ev, delivered, webhookClients,
                   sending, checking>>

\* clearWarnings: the updateMany that deactivates the active warnings
ClearWarnings(c) ==
    /\ mod[c].pc = "clearWarnings"
    /\ immersionWarning' = [i \in 1..Len(immersionWarning) |-> Warning(FALSE)]
    /\ mod' = [mod EXCEPT ![c].pc = "log"]
    /\ UNCHANGED <<clock, tz, guildConfig, verifiedUser, globalUser, usageLog,
                   immersionBan, moderationLog, ev, delivered, webhookClients,
                   sending, checking>>

\* removeWarning: "Warning not found", or the row is there
FindWarning(c) ==
    /\ mod[c].pc = "findUnique"
    /\ mod' = [mod EXCEPT ![c] =
                 IF mod[c].warningId \in 1..Len(immersionWarning)
                 THEN [mod[c] EXCEPT !.pc = "updateWarning"]
                 ELSE Returns(FALSE, {})]
    /\ UNCHANGED <<clock, tz, guildConfig, verifiedUser, globalUser, usageLog,
                   immersionBan, immersionWarning, moderationLog, ev,
                   delivered, webhookClients, sending, checking>>

\* removeWarning: prisma.immersionWarning.update({active: false})
UpdateWarning(c) ==
    /\ mod[c].pc = "updateWarning"
    /\ immersionWarning' = [immersionWarning EXCEPT
                               ![mod[c].warningId] = Warning(FALSE)]
    /\ mod' = [mod EXCEPT ![c].pc = "log"]
    /\ UNCHANGED <<clock, tz, guildConfig, verifiedUser, globalUser, usageLog,
                   immersionBan, moderationLog, ev, delivered, webhookClients,
                   sending, checking>>

\* a logAction that goes on to the log channel without the ModerationLog row
LogAction_Unwritten(c) ==
    /\ mod[c].pc = "log"
    /\ mod' = [mod EXCEPT ![c].pc = "notify"]
    /\ UNCHANGED <<clock, tz, guildConfig, verifiedUser, globalUser, usageLog,
                   immersionBan, immersionWarning, moderationLog, ev,
                   delivered, webhookClients, sending, checking>>

\* logAction: the ModerationLog row (timeoutUser logs "ban" with a duration);
\* call c is made by moderator c
LogAction(c) ==
    /\ mod[c].pc = "log"
    /\ moderationLog' = Append(moderationLog,
          [action |-> ActionOf(mod[c].op), duration |-> mod[c].duration,
           moderatorId |-> c])
    /\ mod' = [mod EXCEPT ![c].pc = "notify"]
    /\ UNCHANGED <<clock, tz, guildConfig, verifiedUser, globalUser, usageLog,
                   immersionBan, immersionWarning, ev, delivered,
                   webhookClients, sending, checking>>

\* sendToLogChannel: no channel is configured, the embed is sent, or the
\* send throws and the error is caught and printed; then warnUser goes on to
\* count and the other operations return
SendToLogChannel(c) ==
    /\ mod[c].pc = "notify"
    /\ \E notified \in {"none", "sent", "failed"} :
          mod' = [mod EXCEPT ![c] =
                    IF mod[c].op = "warn"
                    THEN [mod[c] EXCEPT !.pc = "count", !.notified = notified]
                    ELSE [Returns(TRUE, {}) EXCEPT !.notified = notified]]
    /\ UNCHANGED <<clock, tz, guildConfig, verifiedUser, globalUser, usageLog,
                   immersionBan, immersionWarning, moderationLog, ev,
                   delivered, webhookClients, sending, checking>>

\* a count of all the warnings, active or not
CountWarnings_All(c) ==
    /\ mod[c].pc = "count"
    /\ mod' = [mod EXCEPT ![c] =
                 [Returns(TRUE, {}) EXCEPT
                     !.notified = mod[c].notified,
                     !.warningCount = Len(immersionWarning)]]
    /\ UNCHANGED <<clock, tz, guildConfig, verifiedUser, globalUser, usageLog,
                   immersionBan, immersionWarning, moderationLog, ev,
                   delivered, webhookClients, sending, checking>>

\* warnUser: prisma.immersionWarning.count({active: true}) and the result
CountWarnings(c) ==
    /\ mod[c].pc = "count"
    /\ mod' = [mod EXCEPT ![c] =
                 [Returns(TRUE, {}) EXCEPT
                     !.notified = mod[c].notified,
                     !.warningCount =
                         Cardinality(ActiveWarnings(immersionWarning))]]
    /\ UNCHANGED <<clock, tz, guildConfig, verifiedUser, globalUser, usageLog,
                   immersionBan, immersionWarning, moderationLog, ev,
                   delivered, webhookClients, sending, checking>>

Moderation(c) ==
    \/ Call(c) \/ GetModerationHistory(c) \/ ExpireOutdated(c)
    \/ ReadActive(c) \/ FindBeforeBan(c) \/ CreateBan(c)
    \/ FindBeforeUnban(c) \/ UpdateBan(c) \/ LogAction(c)
    \/ SendToLogChannel(c)

\* the operations on warnings
Warnings(c) ==
    \/ CallWarnings(c) \/ CreateWarning(c) \/ ClearWarnings(c)
    \/ FindWarning(c) \/ UpdateWarning(c) \/ CountWarnings(c)

----------------------------------------------------------------------------
(* events/messageCreate.ts: handleMessageCreate *)

NoRow ==
    [exists |-> FALSE, immersionEnabled |-> FALSE, userId |-> FALSE,
     monthlyCharacterUsage |-> 0, usageResetDate |-> 0, currentStreak |-> 0,
     longestStreak |-> 0, lastActiveDate |-> Null, totalTranslations |-> 0,
     achievements |-> <<>>]

NoConfig ==
    [subscriptionTier |-> "free", monthlyCharacterUsage |-> 0,
     usageResetDate |-> 0, enabledLanguages |-> <<>>,
     linkedLanguages |-> {}]

\* the locals of an invocation that has not started
IdleEvent ==
    [pc |-> "idle", outcome |-> "", len |-> 0, sourceLang |-> "",
     config |-> NoConfig, verifiedUser |-> NoRow, userTier |-> "free",
     startOfMonth |-> 0, characterCost |-> 0, effectiveUserLimit |-> 0,
     translations |-> <<>>, next |-> 0, today |-> 0, newStreak |-> 0,
     longestStreak |-> 0]

\* the handler returns
Return(e, how) == [IdleEvent EXCEPT !.pc = "done", !.outcome = how]

\* a catch block that throws the error on to the caller
Catch_Rethrows(e, error) ==
    [IdleEvent EXCEPT !.pc = "thrown", !.outcome = error]

\* catch (error) { console.error(...) }: the error is logged and the
\* handler's promise resolves
Catch(e, error) == Return(e, error)

\* channelLanguageMap[message.channel.id] is defined
Monitored(enabledLanguages, lang) ==
    Len(enabledLanguages) = 0 \/ Includes(enabledLanguages, lang)

\* the config row holds a channel, a webhook id and a webhook token for lang
\* (setupFull writes them for every language, linkExistingChannels for the
\* languages of its mapping)
Linked(config, lang) == lang \in config.linkedLanguages

\* numTargetLanguages
numTargetLanguages(enabledLanguages, sourceLang) ==
    IF Len(enabledLanguages) > 0
    THEN Len(SelectSeq(enabledLanguages, LAMBDA lang : lang /= sourceLang))
    ELSE Cardinality(LANGUAGES) - 1

characterCost(len, enabledLanguages, sourceLang) ==
    len * numTargetLanguages(enabledLanguages, sourceLang)

\* a check that also rejects a cost that lands exactly on the limit
OverUserLimit_AtLimit(usage, cost, limit) == usage + cost >= limit

OverUserLimit(usage, cost, limit) == usage + cost > limit

\* a guild check that lets every cost through
OverGuildLimit_Never(usage, cost, guildTier) == FALSE

OverGuildLimit(usage, cost, guildTier) ==
    usage + cost > getTierLimits(guildTier).perGuild

\* a recomputation that never raises longestStreak on a consecutive day
StreakAfter_KeepsLongest(row, today) ==
    IF row.lastActiveDate /= Null
    THEN LET daysDiff == (today - setHoursZero(Val(row.lastActiveDate)))
                             \div MinutesPerDay
         IN  [newStreak |-> IF daysDiff = 0 THEN row.currentStreak
                            ELSE IF daysDiff = 1 THEN row.currentStreak + 1
                            ELSE 1,
              longestStreak |-> row.longestStreak]
    ELSE [newStreak |-> 1, longestStreak |-> 1]

\* newStreak and longestStreak as computed from the row read earlier
StreakAfter(row, today) ==
    IF row.lastActiveDate /= Null
    THEN LET lastActive == setHoursZero(Val(row.lastActiveDate))
             daysDiff == (today - lastActive) \div MinutesPerDay
         IN  IF daysDiff = 0
             THEN [newStreak |-> row.currentStreak,
                   longestStreak |-> row.longestStreak]
             ELSE IF daysDiff = 1
             THEN [newStreak |-> row.currentStreak + 1,
                   longestStreak |->
                       Max(row.longestStreak, row.currentStreak + 1)]
             ELSE [newStreak |-> 1, longestStreak |-> row.longestStreak]
    ELSE [newStreak |-> 1, longestStreak |-> 1]

\* a message arrives from the member in a language channel
Start(e) ==
    /\ ev[e].pc = "idle"
    /\ \A d \in Events : d < e => ev[d].pc /= "idle"
    /\ \E len \in 1..MaxLen, lang \in LANGUAGES :
          ev' = [ev EXCEPT ![e] = [IdleEvent EXCEPT !.pc = "config",
                                      !.len = len, !.sourceLang = lang]]
    /\ UNCHANGED <<clock, tz, guildConfig, verifiedUser, globalUser, usageLog,
                   immersionBan, delivered, webhookClients, moderationLog, mod,
                   sending, immersionWarning, checking>>

\* a bot or webhook message, a direct message or a blank message
Ignore(e) ==
    /\ ev[e].pc = "idle"
    /\ \A d \in Events : d < e => ev[d].pc /= "idle"
    /\ ev' = [ev EXCEPT ![e] = [IdleEvent EXCEPT !.pc = "done",
                                                 !.outcome = "ignored"]]
    /\ UNCHANGED <<clock, tz, guildConfig, verifiedUser, globalUser, usageLog,
                   immersionBan, delivered, webhookClients, moderationLog, mod,
                   sending, immersionWarning, checking>>

\* prisma.guildConfig.findUnique, and the channel to language map
ReadConfig(e) ==
    /\ ev[e].pc = "config"
    /\ ev' = [ev EXCEPT ![e] =
                IF /\ Linked(guildConfig, ev[e].sourceLang)
                   /\ Monitored(guildConfig.enabledLanguages,
                                ev[e].sourceLang)
                THEN [ev[e] EXCEPT !.pc = "verified", !.config = guildConfig]
                ELSE Return(e, "unmonitored")]
    /\ UNCHANGED <<clock, tz, guildConfig, verifiedUser, globalUser, usageLog,
                   immersionBan, delivered, webhookClients, moderationLog, mod,
                   sending, immersionWarning, checking>>

\* prisma.verifiedUser.findUnique, the verification and the opt-out gates
ReadVerified(e) ==
    /\ ev[e].pc = "verified"
    /\ ev' = [ev EXCEPT ![e] =
                IF ~verifiedUser.exists THEN Return(e, "unverified")
                ELSE IF ~verifiedUser.immersionEnabled
                THEN Return(e, "disabled")
                ELSE [ev[e] EXCEPT !.pc = "banSweep",
                                   !.verifiedUser = verifiedUser]]
    /\ UNCHANGED <<clock, tz, guildConfig, verifiedUser, globalUser, usageLog,
                   immersionBan, delivered, webhookClients, moderationLog, mod,
                   sending, immersionWarning, checking>>

\* getBanStatus -> getActiveBan: the updateMany that expires outdated bans
BanSweep(e) ==
    /\ ev[e].pc = "banSweep"
    /\ immersionBan' = SweepExpired(immersionBan, clock)
    /\ ev' = [ev EXCEPT ![e].pc = "banFind"]
    /\ UNCHANGED <<clock, tz, guildConfig, verifiedUser, globalUser, usageLog,
                   delivered, webhookClients, moderationLog, mod, sending,
                   immersionWarning, checking>>

\* getActiveBan's findFirst, and the ban gate
BanFind(e) ==
    /\ ev[e].pc = "banFind"
    /\ ev' = [ev EXCEPT ![e] =
                IF ActiveBans(immersionBan) /= {} THEN Return(e, "banned")
                ELSE [ev[e] EXCEPT !.pc = "global"]]
    /\ UNCHANGED <<clock, tz, guildConfig, verifiedUser, globalUser, usageLog,
                   immersionBan, delivered, webhookClients, moderationLog, mod,
                   sending, immersionWarning, checking>>

\* a limit check that records the rejection and goes on to translate
LimitChecks_Proceeds(loc) ==
    LET cost == characterCost(loc.len, loc.config.enabledLanguages,
                              loc.sourceLang)
        limit == getEffectiveUserLimit(loc.userTier,
                                       loc.config.subscriptionTier)
    IN  IF OverUserLimit(loc.verifiedUser.monthlyCharacterUsage, cost, limit)
        THEN [loc EXCEPT !.pc = "translate", !.outcome = "userLimit",
                         !.characterCost = cost, !.effectiveUserLimit = limit]
        ELSE IF OverGuildLimit(loc.config.monthlyCharacterUsage, cost,
                               loc.config.subscriptionTier)
        THEN [loc EXCEPT !.pc = "translate", !.outcome = "guildLimit",
                         !.characterCost = cost, !.effectiveUserLimit = limit]
        ELSE [loc EXCEPT !.pc = "translate", !.characterCost = cost,
                         !.effectiveUserLimit = limit]

\* the cost and the two limit checks, on the locals loc; no await is involved
LimitChecks(loc) ==
    LET cost == characterCost(loc.len, loc.config.enabledLanguages,
                              loc.sourceLang)
        limit == getEffectiveUserLimit(loc.userTier,
                                       loc.config.subscriptionTier)
    IN  IF OverUserLimit(loc.verifiedUser.monthlyCharacterUsage, cost, limit)
        THEN [IdleEvent EXCEPT !.pc = "done", !.outcome = "userLimit"]
        ELSE IF OverGuildLimit(loc.config.monthlyCharacterUsage, cost,
                               loc.config.subscriptionTier)
        THEN [IdleEvent EXCEPT !.pc = "done", !.outcome = "guildLimit"]
        ELSE [loc EXCEPT !.pc = "translate", !.characterCost = cost,
                         !.effectiveUserLimit = limit]

\* where the handler awaits next once the member's counter is dealt with
ThenGuild(loc) ==
    IF loc.config.usageResetDate < loc.startOfMonth
    THEN [loc EXCEPT !.pc = "rollGuild"]
    ELSE LimitChecks(loc)

\* where the handler awaits next once now is read
ThenUser(loc) ==
    IF loc.verifiedUser.usageResetDate < loc.startOfMonth
    THEN [loc EXCEPT !.pc = "rollUser"]
    ELSE ThenGuild(loc)

\* the global user record is fetched or created and linked; then now is read
FetchGlobalUser(e) ==
    /\ ev[e].pc = "global"
    /\ globalUser' = IF globalUser.exists THEN globalUser
                     ELSE [globalUser EXCEPT !.exists = TRUE]
    /\ verifiedUser' = IF ev[e].verifiedUser.userId THEN verifiedUser
                       ELSE [verifiedUser EXCEPT !.userId = TRUE]
    /\ ev' = [ev EXCEPT ![e] =
                ThenUser([ev[e] EXCEPT
                            !.userTier = globalUser'.subscriptionTier,
                            !.startOfMonth = startOfMonthOf(clock)])]
    /\ UNCHANGED <<clock, tz, guildConfig, usageLog, immersionBan, delivered,
                   webhookClients, moderationLog, mod, sending,
                   immersionWarning, checking>>

\* "Reset usage if new month", the member's counter
RollUser(e) ==
    /\ ev[e].pc = "rollUser"
    /\ verifiedUser' = [verifiedUser EXCEPT
                           !.monthlyCharacterUsage = 0,
                           !.usageResetDate = ev[e].startOfMonth]
    /\ ev' = [ev EXCEPT ![e] =
                ThenGuild([ev[e] EXCEPT
                              !.verifiedUser.monthlyCharacterUsage = 0])]
    /\ UNCHANGED <<clock, tz, guildConfig, globalUser, usageLog, immersionBan,
                   delivered, webhookClients, moderationLog, mod, sending,
                   immersionWarning, checking>>

\* "Reset usage if new month", the guild's counter
RollGuild(e) ==
    /\ ev[e].pc = "rollGuild"
    /\ guildConfig' = [guildConfig EXCEPT
                          !.monthlyCharacterUsage = 0,
                          !.usageResetDate = ev[e].startOfMonth]
    /\ ev' = [ev EXCEPT ![e] =
                LimitChecks([ev[e] EXCEPT
                                !.config.monthlyCharacterUsage = 0])]
    /\ UNCHANGED <<clock, tz, verifiedUser, globalUser, usageLog, immersionBan,
                   delivered, webhookClients, moderationLog, mod, sending,
                   immersionWarning, checking>>

\* translateToAllLanguages resolves: one translation per other language
TranslateOk(e) ==
    /\ ev[e].pc = "translate"
    /\ ev' = [ev EXCEPT ![e].pc = "deliver",
                        ![e].translations = getOtherLanguages(ev[e].sourceLang),
                        ![e].next = 1]
    /\ UNCHANGED <<clock, tz, guildConfig, verifiedUser, globalUser, usageLog,
                   immersionBan, delivered, webhookClients, moderationLog, mod,
                   sending, immersionWarning, checking>>

\* a failure that comes after the first translation was sent on
TranslateFail_Partial(e) ==
    /\ ev[e].pc = "translate"
    /\ ev' = [ev EXCEPT ![e] = Catch(e, "translateFailed")]
    /\ delivered' = delivered
                       \cup {<<e, getOtherLanguages(ev[e].sourceLang)[1]>>}
    /\ UNCHANGED <<clock, tz, guildConfig, verifiedUser, globalUser, usageLog,
                   immersionBan, webhookClients, moderationLog, mod, sending,
                   immersionWarning, checking>>

\* one of the translations rejects, so Promise.all rejects
TranslateFail(e) ==
    /\ ev[e].pc = "translate"
    /\ ev' = [ev EXCEPT ![e] = Catch(e, "translateFailed")]
    /\ UNCHANGED <<clock, tz, guildConfig, verifiedUser, globalUser, usageLog,
                   immersionBan, delivered, webhookClients, moderationLog, mod,
                   sending, immersionWarning, checking>>

\* the locals after the last delivery: today and the new streak
AfterFanOut(e) ==
    LET today == setHoursZero(clock)
        st == StreakAfter(ev[e].verifiedUser, today)
    IN  [ev[e] EXCEPT !.pc = "commit", !.today = today,
                      !.newStreak = st.newStreak,
                      !.longestStreak = st.longestStreak]

AfterDelivery(e) ==
    IF ev[e].next = Len(ev[e].translations) THEN AfterFanOut(e)
    ELSE [ev[e] EXCEPT !.next = @ + 1]

\* one turn of the loop: getWebhookInfoForLanguage returns null and the
\* language is passed over, or sendTranslatedMessage resolves
DeliverOk(e) ==
    /\ ev[e].pc = "deliver"
    /\ LET lang == ev[e].translations[ev[e].next]
       IN  IF Linked(guildConfig, lang)
           THEN /\ webhookClients' =
                      getWebhookClient(webhookClients, WebhookIdOf(lang),
                                       clock)
                /\ delivered' = delivered \cup {<<e, lang>>}
           ELSE UNCHANGED <<webhookClients, delivered>>
    /\ ev' = [ev EXCEPT ![e] = AfterDelivery(e)]
    /\ UNCHANGED <<clock, tz, guildConfig, verifiedUser, globalUser, usageLog,
                   immersionBan, moderationLog, mod, sending, immersionWarning,
                   checking>>

\* one turn of the loop: sendTranslatedMessage throws
\* (unknown: code 10015, the client is dropped from the cache)
DeliverFail(e) ==
    /\ ev[e].pc = "deliver"
    /\ Linked(guildConfig, ev[e].translations[ev[e].next])
    /\ LET key == WebhookIdOf(ev[e].translations[ev[e].next])
           used == getWebhookClient(webhookClients, key, clock)
       IN  \E unknown \in BOOLEAN :
              webhookClients' = IF unknown THEN DropClient(used, key) ELSE used
    /\ ev' = [ev EXCEPT ![e] = Catch(e, "deliverFailed")]
    /\ UNCHANGED <<clock, tz, guildConfig, verifiedUser, globalUser, usageLog,
                   immersionBan, delivered, moderationLog, mod, sending,
                   immersionWarning, checking>>

\* writes that store the values computed from the rows read at the start,
\* where the code hands {increment: ...} to the store
TransactionWrites_Overwrite(e) ==
    /\ verifiedUser' =
          [verifiedUser EXCEPT
              !.monthlyCharacterUsage =
                  ev[e].verifiedUser.monthlyCharacterUsage
                      + ev[e].characterCost,
              !.currentStreak = ev[e].newStreak,
              !.longestStreak = ev[e].longestStreak,
              !.lastActiveDate = Some(ev[e].today),
              !.totalTranslations = ev[e].verifiedUser.totalTranslations + 1]
    /\ guildConfig' =
          [guildConfig EXCEPT
              !.monthlyCharacterUsage =
                  ev[e].config.monthlyCharacterUsage + ev[e].characterCost]
    /\ usageLog' = Append(usageLog,
          [event |-> e, sourceLanguage |-> ev[e].sourceLang,
           targetLanguage |-> ev[e].translations,
           characterCount |-> ev[e].characterCost])
    /\ globalUser' =
          [globalUser EXCEPT
              !.totalTranslationsAllTime = @ + 1,
              !.totalCharactersAllTime = @ + ev[e].characterCost]

\* the writes of prisma.$transaction(transactionOperations)
TransactionWrites(e) ==
    /\ verifiedUser' =
          [verifiedUser EXCEPT
              !.monthlyCharacterUsage = @ + ev[e].characterCost,
              !.currentStreak = ev[e].newStreak,
              !.longestStreak = ev[e].longestStreak,
              !.lastActiveDate = Some(ev[e].today),
              !.totalTranslations = @ + 1]
    /\ guildConfig' =
          [guildConfig EXCEPT
              !.monthlyCharacterUsage = @ + ev[e].characterCost]
    /\ usageLog' = Append(usageLog,
          [event |-> e, sourceLanguage |-> ev[e].sourceLang,
           targetLanguage |-> ev[e].translations,
           characterCount |-> ev[e].characterCost])
    /\ globalUser' =
          [globalUser EXCEPT
              !.totalTranslationsAllTime = @ + 1,
              !.totalCharactersAllTime = @ + ev[e].characterCost]

\* a rollback that is not one: the member's row stays written
TransactionRollback_Partial(e) ==
    /\ verifiedUser' =
          [verifiedUser EXCEPT
              !.monthlyCharacterUsage = @ + ev[e].characterCost]
    /\ UNCHANGED <<guildConfig, usageLog, globalUser, sending,
                   immersionWarning, checking>>

\* the transaction rolls back: none of its writes is applied
TransactionRollback(e) ==
    UNCHANGED <<verifiedUser, guildConfig, usageLog, globalUser, sending,
                immersionWarning, checking>>

\* the achievements the handler finds earned after its transaction
EarnedBy(loc) ==
    checkNewAchievements(loc.verifiedUser.achievements,
        [translations |-> loc.verifiedUser.totalTranslations + 1,
         streak |-> loc.newStreak,
         characters |-> loc.verifiedUser.monthlyCharacterUsage
                            + loc.characterCost])

CommitOk(e) ==
    /\ ev[e].pc = "commit"
    /\ TransactionWrites(e)
    /\ ev' = [ev EXCEPT ![e] =
                IF Len(EarnedBy(ev[e])) > 0
                THEN [ev[e] EXCEPT !.pc = "achievements"]
                ELSE Return(e, "relayed")]
    /\ UNCHANGED <<clock, tz, immersionBan, delivered, webhookClients,
                   moderationLog, mod, sending, immersionWarning, checking>>

CommitFail(e) ==
    /\ ev[e].pc = "commit"
    /\ TransactionRollback(e)
    /\ ev' = [ev EXCEPT ![e] = Catch(e, "commitFailed")]
    /\ UNCHANGED <<clock, tz, immersionBan, delivered, webhookClients,
                   moderationLog, mod, sending, immersionWarning, checking>>

\* the update of the achievements column with the newly earned ids
Achievements(e) ==
    /\ ev[e].pc = "achievements"
    /\ verifiedUser' =
          [verifiedUser EXCEPT
              !.achievements =
                  ev[e].verifiedUser.achievements \o Ids(EarnedBy(ev[e]))]
    /\ ev' = [ev EXCEPT ![e] = Return(e, "relayed")]
    /\ UNCHANGED <<clock, tz, guildConfig, globalUser, usageLog, immersionBan,
                   delivered, webhookClients, moderationLog, mod, sending,
                   immersionWarning, checking>>

\* a day passes: it is noon of the next day, and the cleanup timer of the
\* webhook service (every 5 minutes) has just fired
Tick ==
    /\ DayOf(clock) < LastDay
    /\ clock' = DayStart(DayOf(clock) + 1) + HalfDay
    /\ webhookClients' = cleanupExpiredClients(webhookClients, clock')
    /\ UNCHANGED <<tz, guildConfig, verifiedUser, globalUser, usageLog,
                   immersionBan, ev, delivered, moderationLog, mod, sending,
                   immersionWarning, checking>>

Handler(e) ==
    \/ Start(e) \/ Ignore(e) \/ ReadConfig(e) \/ ReadVerified(e)
    \/ BanSweep(e) \/ BanFind(e) \/ FetchGlobalUser(e) \/ RollUser(e)
    \/ RollGuild(e) \/ TranslateOk(e) \/ TranslateFail(e) \/ DeliverOk(e)
    \/ DeliverFail(e) \/ CommitOk(e) \/ CommitFail(e) \/ Achievements(e)

NextRelay == Tick \/ \E e \in Events : Handler(e)

NextMod == Tick \/ \E c \in Calls : Moderation(c) \/ Warnings(c)

----------------------------------------------------------------------------
(* The webhook service on its own: sends for the webhooks of many guilds *)

SweepPeriod == 5      \* the setInterval of the constructor, in minutes
NumSweeps == 2        \* the sweeps the timer makes
NumFreshKeys == 2     \* credential pairs that are not cached at first
CacheFill == WEBHOOK_CACHE_MAX_SIZE - 1

\* the credential pairs a send may use: two cached at first, the others not
SendKeys == {1, 2} \cup (CacheFill + 1 .. CacheFill + NumFreshKeys)

\* the error code of Discord's "Unknown Webhook"
UnknownWebhook == 10015

\* the locals of a sendTranslatedMessage call that is not running
IdleSend ==
    [pc |-> "idle", key |-> 0, sent |-> 0, code |-> Null, error |-> "none",
     destroyed |-> FALSE]

\* the call in flight once the cache is cacheAfter: a client that left the
\* cache by eviction, sweep or clearCache has had its destroy() called
AfterDestroy(cacheAfter) ==
    IF sending.pc = "send" /\ sending.key \notin CacheKeys(cacheAfter)
    THEN [sending EXCEPT !.destroyed = TRUE]
    ELSE sending

\* sendTranslatedMessage resolves
SendOk ==
    /\ \E key \in SendKeys :
          webhookClients' = getWebhookClient(webhookClients, key, clock)
    /\ sending' = AfterDestroy(webhookClients')
    /\ UNCHANGED <<clock, tz, guildConfig, verifiedUser, globalUser, usageLog,
                   immersionBan, moderationLog, ev, mod, delivered,
                   immersionWarning, checking>>

\* sendTranslatedMessage takes the client and awaits webhookClient.send
SendStart ==
    /\ sending.pc /= "send"
    /\ \E key \in SendKeys :
          /\ webhookClients' = getWebhookClient(webhookClients, key, clock)
          /\ sending' = [IdleSend EXCEPT !.pc = "send", !.key = key,
                                         !.sent = 1]
    /\ UNCHANGED <<clock, tz, guildConfig, verifiedUser, globalUser, usageLog,
                   immersionBan, moderationLog, ev, mod, delivered,
                   immersionWarning, checking>>

\* webhookClient.send rejects with code 10015: the client leaves the cache
\* and the call throws the error that asks for a new webhook
SendUnknownWebhook ==
    /\ sending.pc = "send"
    /\ webhookClients' = DropClient(webhookClients, sending.key)
    /\ sending' = [sending EXCEPT
                      !.pc = "thrown", !.code = Some(UnknownWebhook),
                      !.error = "Webhook was deleted and needs to be recreated"]
    /\ UNCHANGED <<clock, tz, guildConfig, verifiedUser, globalUser, usageLog,
                   immersionBan, moderationLog, ev, mod, delivered,
                   immersionWarning, checking>>

\* the awaited webhookClient.send of the call resolves
SendResolved ==
    /\ sending.pc = "send"
    /\ sending' = [sending EXCEPT !.pc = "returned"]
    /\ UNCHANGED <<clock, tz, guildConfig, verifiedUser, globalUser, usageLog,
                   immersionBan, moderationLog, ev, mod, delivered,
                   webhookClients, immersionWarning, checking>>

\* webhookClient.send rejects with another error, which is thrown on
SendOtherError ==
    /\ sending.pc = "send"
    /\ sending' = [sending EXCEPT !.pc = "thrown", !.error = "rethrown"]
    /\ UNCHANGED <<clock, tz, guildConfig, verifiedUser, globalUser, usageLog,
                   immersionBan, moderationLog, ev, mod, delivered,
                   webhookClients, immersionWarning, checking>>

\* SweepPeriod minutes pass and the timer calls cleanupExpiredClients
SweepTimer ==
    /\ clock < HalfDay + NumSweeps * SweepPeriod
    /\ clock' = clock + SweepPeriod
    /\ webhookClients' = cleanupExpiredClients(webhookClients, clock')
    /\ sending' = AfterDestroy(webhookClients')
    /\ UNCHANGED <<tz, guildConfig, verifiedUser, globalUser, usageLog,
                   immersionBan, moderationLog, ev, mod, delivered,
                   immersionWarning, checking>>

\* the last step of ImmersionManagerService.reset: webhookService.clearCache()
\* destroys every cached client and empties the Map
ClearCache ==
    /\ webhookClients /= <<>>
    /\ webhookClients' = <<>>
    /\ sending' = AfterDestroy(webhookClients')
    /\ UNCHANGED <<clock, tz, guildConfig, verifiedUser, globalUser, usageLog,
                   immersionBan, moderationLog, ev, mod, delivered,
                   immersionWarning, checking>>

NextCache ==
    \/ SendOk \/ SendStart \/ SendResolved \/ SendUnknownWebhook
    \/ SendOtherError \/ SweepTimer \/ ClearCache

----------------------------------------------------------------------------
(* Initial states.  The guild is set up, with a channel and a webhook for   *)
(* every language; the counters were last reset in the previous month.      *)

PrevMonthStart == DayStart(0) - 30 * MinutesPerDay

UsageBefore == 7      \* the guild's monthly usage when the model starts

Member(usage, streak, longest, lastActive) ==
    [exists |-> TRUE, immersionEnabled |-> TRUE, userId |-> TRUE,
     monthlyCharacterUsage |-> usage, usageResetDate |-> PrevMonthStart,
     currentStreak |-> streak, longestStreak |-> longest,
     lastActiveDate |-> lastActive,
     totalTranslations |-> IF lastActive = Null THEN 0 ELSE 5,
     achievements |-> IF lastActive = Null THEN <<>> ELSE <<"first_words">>]

Guild(tier, usage, enabled) ==
    [subscriptionTier |-> tier, monthlyCharacterUsage |-> usage,
     usageResetDate |-> PrevMonthStart, enabledLanguages |-> enabled,
     linkedLanguages |-> LANGUAGES]

Account(tier) ==
    [exists |-> TRUE, subscriptionTier |-> tier,
     totalTranslationsAllTime |-> 0, totalCharactersAllTime |-> 0]

\* a row of the ImmersionBan table
Ban(active, expiresAt) == [active |-> active, expiresAt |-> expiresAt]

\* nothing is in flight, nothing was logged or sent
InitCommon ==
    /\ usageLog = <<>>
    /\ moderationLog = <<>>
    /\ ev = [e \in Events |-> IdleEvent]
    /\ mod = [c \in Calls |-> IdleCall]
    /\ delivered = {}
    /\ sending = IdleSend
    /\ checking = IdleCheck

\* the accounting scenarios: every language enabled and a new member; an
\* enabledLanguages list that names a language twice (the settings route
\* checks each code, not uniqueness) and a member with a streak
InitRelay ==
    /\ InitCommon
    /\ tz = "fixed"
    /\ clock = HalfDay
    /\ \/ /\ guildConfig = Guild("free", UsageBefore, <<>>)
          /\ verifiedUser = Member(0, 0, 0, Null)
       \/ /\ guildConfig = Guild("free", UsageBefore, <<"EN", "EN", "ES">>)
          /\ verifiedUser = Member(3, 2, 3, Some(0))
    /\ globalUser = Account("free")
    /\ immersionBan = <<>>
    /\ immersionWarning = <<>>
    /\ webhookClients = <<>>

SpecRelay == InitRelay /\ [][NextRelay]_vars

\* the streak scenarios: a member with a streak who was last active on day 0,
\* on a host whose time zone has no transition, or one on day TransitionDay
InitStreak ==
    /\ InitCommon
    /\ tz \in {"fixed", "spring", "autumn"}
    /\ clock = HalfDay
    /\ guildConfig = Guild("free", UsageBefore, <<>>)
    /\ verifiedUser = Member(3, 2, 3, Some(0))
    /\ globalUser = Account("free")
    /\ immersionBan = <<>>
    /\ immersionWarning = <<>>
    /\ webhookClients = <<>>

SpecStreak == InitStreak /\ [][NextRelay]_vars

\* the gate scenarios: no row for the member, a member who opted out, a
\* permanent ban, and a timeout that ends at the start of day 1
InitGates ==
    /\ InitCommon
    /\ tz = "fixed"
    /\ clock = HalfDay
    /\ guildConfig = Guild("free", UsageBefore, <<>>)
    /\ globalUser = Account("free")
    /\ \/ verifiedUser = NoRow /\ immersionBan = <<>>
       \/ /\ verifiedUser = [Member(0, 0, 0, Null) EXCEPT
                                 !.immersionEnabled = FALSE]
          /\ immersionBan = <<>>
       \/ /\ verifiedUser = Member(0, 0, 0, Null)
          /\ immersionBan \in {<<Ban(TRUE, Null)>>,
                                <<Ban(TRUE, Some(DayStart(1)))>>}
    /\ immersionWarning = <<>>
    /\ webhookClients = <<>>

SpecGates == InitGates /\ [][NextRelay]_vars

\* the moderation scenarios: no ban yet, or a timeout that ends at noon of
\* day 1
InitMod ==
    /\ InitCommon
    /\ tz = "fixed"
    /\ clock = HalfDay
    /\ guildConfig = Guild("free", UsageBefore, <<>>)
    /\ verifiedUser = Member(3, 2, 3, Some(0))
    /\ globalUser = Account("free")
    /\ immersionBan \in {<<>>, <<Ban(TRUE, Some(DayStart(1) + HalfDay))>>}
    /\ immersionWarning \in {<<>>, <<Warning(TRUE), Warning(FALSE)>>}
    /\ webhookClients = <<>>

SpecMod == InitMod /\ [][NextMod]_vars

\* relay events of a member whose current streak is the longest so far
InitLongest ==
    /\ InitCommon
    /\ tz = "fixed"
    /\ clock = HalfDay
    /\ guildConfig = Guild("free", UsageBefore, <<>>)
    /\ verifiedUser = Member(3, 3, 3, Some(0))
    /\ globalUser = Account("free")
    /\ immersionBan = <<>>
    /\ immersionWarning = <<>>
    /\ webhookClients = <<>>

SpecLongest == InitLongest /\ [][NextRelay]_vars

\* relay events of a member who is one translation short of
\* getting_started and one day short of streak_starter
InitUnlock ==
    /\ InitCommon
    /\ tz = "fixed"
    /\ clock = HalfDay
    /\ guildConfig = Guild("free", UsageBefore, <<>>)
    /\ verifiedUser = [Member(3, 2, 3, Some(0)) EXCEPT !.totalTranslations = 9]
    /\ globalUser = Account("free")
    /\ immersionBan = <<>>
    /\ immersionWarning = <<>>
    /\ webhookClients = <<>>

SpecUnlock == InitUnlock /\ [][NextRelay]_vars

\* the moderation calls on a member who has two active ban rows, the state
\* that two overlapping banUser calls leave behind
InitUnban ==
    /\ InitCommon
    /\ tz = "fixed"
    /\ clock = HalfDay
    /\ guildConfig = Guild("free", UsageBefore, <<>>)
    /\ verifiedUser = Member(3, 2, 3, Some(0))
    /\ globalUser = Account("free")
    /\ immersionBan \in {<<Ban(TRUE, Null)>>,
                          <<Ban(TRUE, Null), Ban(TRUE, Null)>>,
                          <<Ban(TRUE, Some(DayStart(1) + HalfDay)),
                            Ban(TRUE, Null)>>}
    /\ immersionWarning \in {<<>>, <<Warning(TRUE), Warning(FALSE)>>}
    /\ webhookClients = <<>>

SpecUnban == InitUnban /\ [][NextMod]_vars

\* the cache scenarios: CacheFill clients are cached, the odd-numbered ones
\* last used two sweeps before they expire and the others one sweep earlier
InitCache ==
    /\ InitCommon
    /\ tz = "fixed"
    /\ clock = HalfDay
    /\ guildConfig = Guild("free", UsageBefore, <<>>)
    /\ verifiedUser = Member(3, 2, 3, Some(0))
    /\ globalUser = Account("free")
    /\ immersionBan = <<>>
    /\ immersionWarning = <<>>
    /\ webhookClients =
          [k \in 1..CacheFill |->
              [key |-> k,
               lastUsed |->
                   IF k % 2 = 1
                   THEN HalfDay + 2 * SweepPeriod - WEBHOOK_CACHE_TTL
                   ELSE HalfDay + SweepPeriod - WEBHOOK_CACHE_TTL]]

SpecCache == InitCache /\ [][NextCache]_vars

\* the limit scenarios, on the first day of a month: for every pair of tiers,
\* a member two characters below the effective limit whose guild has not
\* rolled over yet, and a guild two characters below its limit whose member
\* has not rolled over yet
InitLimits ==
    /\ InitCommon
    /\ tz = "fixed"
    /\ clock = DayStart(MonthFirstDay) + HalfDay
    /\ immersionWarning = <<>>
    /\ webhookClients = <<>>
    /\ immersionBan = <<>>
    /\ \E userTier \in Tiers, guildTier \in Tiers :
          /\ globalUser = Account(userTier)
          /\ \/ LET near == getEffectiveUserLimit(userTier, guildTier) - 2
                IN  /\ verifiedUser =
                          [Member(near, 2, 3, Some(0)) EXCEPT
                              !.usageResetDate = DayStart(MonthFirstDay)]
                    /\ guildConfig = Guild(guildTier, near, <<>>)
             \/ /\ verifiedUser = Member(1, 2, 3, Some(0))
                /\ guildConfig =
                      [Guild(guildTier, getTierLimits(guildTier).perGuild - 2,
                             <<>>)
                          EXCEPT !.usageResetDate = DayStart(MonthFirstDay)]

\* the handler alone: the clock stands still
NextLimits == \E e \in Events : Handler(e)

SpecLimits == InitLimits /\ [][NextLimits]_vars

\* no other invocation of the handler is under way
OneAtATime(e) == \A d \in Events \ {e} : ev[d].pc \in {"idle", "done"}

\* the events of the guild handled one after the other
NextSerial ==
    \E e \in Events :
        \/ OneAtATime(e) /\ Start(e)
        \/ OneAtATime(e) /\ Ignore(e)
        \/ ReadConfig(e) \/ ReadVerified(e) \/ BanSweep(e) \/ BanFind(e)
        \/ FetchGlobalUser(e) \/ RollUser(e) \/ RollGuild(e)
        \/ TranslateOk(e) \/ TranslateFail(e) \/ DeliverOk(e)
        \/ DeliverFail(e) \/ CommitOk(e) \/ CommitFail(e)
        \/ Achievements(e)

\* a month that begins within the limits: either the member is two
\* characters below the effective limit, or the guild two below its own
InitSerial ==
    /\ InitCommon
    /\ tz = "fixed"
    /\ clock = DayStart(MonthFirstDay) + HalfDay
    /\ immersionWarning = <<>>
    /\ webhookClients = <<>>
    /\ immersionBan = <<>>
    /\ \E userTier \in Tiers, guildTier \in Tiers :
          /\ globalUser = Account(userTier)
          /\ \/ /\ verifiedUser =
                      [Member(Max(UserTierLimits(userTier).perUser,
                                  getTierLimits(guildTier).perUser) - 2,
                              2, 3, Some(0))
                          EXCEPT !.usageResetDate = DayStart(MonthFirstDay)]
                /\ guildConfig =
                      Guild(guildTier, getTierLimits(guildTier).perGuild - 3,
                            <<>>)
             \/ /\ verifiedUser = Member(1, 2, 3, Some(0))
                /\ guildConfig =
                      [Guild(guildTier, getTierLimits(guildTier).perGuild - 2,
                             <<>>)
                          EXCEPT !.usageResetDate = DayStart(MonthFirstDay)]

SpecSerial == InitSerial /\ [][NextSerial]_vars

\* the rows of a member and a guild whose counters were reset this month
MemberBefore ==
    [Member(3, 2, 3, Some(DayStart(MonthFirstDay - 1))) EXCEPT
        !.usageResetDate = DayStart(MonthFirstDay)]

GuildBefore ==
    [Guild("free", UsageBefore, <<>>) EXCEPT
        !.usageResetDate = DayStart(MonthFirstDay)]

\* the accounting within one month: the counters were reset this month and
\* the clock stands still while the events run
InitLedger ==
    /\ InitCommon
    /\ tz = "fixed"
    /\ clock = DayStart(MonthFirstDay) + HalfDay
    /\ guildConfig = GuildBefore
    /\ verifiedUser = MemberBefore
    /\ globalUser = Account("free")
    /\ immersionBan = <<>>
    /\ immersionWarning = <<>>
    /\ webhookClients = <<>>

\* the handler where no rollover is due: the rollover block is skipped
NextLedger ==
    \E e \in Events :
        \/ Start(e) \/ Ignore(e) \/ ReadConfig(e) \/ ReadVerified(e)
        \/ BanSweep(e) \/ BanFind(e) \/ FetchGlobalUser(e)
        \/ TranslateOk(e) \/ TranslateFail(e) \/ DeliverOk(e)
        \/ DeliverFail(e) \/ CommitOk(e) \/ CommitFail(e)
        \/ Achievements(e)

SpecLedger == InitLedger /\ [][NextLedger]_vars

\* a guild set up with linkExistingChannels for the first two languages
\* only, no enabledLanguages list, and a new member
InitLinked ==
    /\ InitCommon
    /\ tz = "fixed"
    /\ clock = DayStart(MonthFirstDay) + HalfDay
    /\ guildConfig = [Guild("free", UsageBefore, <<>>) EXCEPT
                         !.linkedLanguages =
                             {LanguageList[1], LanguageList[2]}]
    /\ verifiedUser = Member(0, 0, 0, Null)
    /\ globalUser = Account("free")
    /\ immersionBan = <<>>
    /\ immersionWarning = <<>>
    /\ webhookClients = <<>>

SpecLinked == InitLinked /\ [][NextLimits]_vars

\* the definition list in another order: rotated by k, then reversed or not
Reordered(list, k, reversed) ==
    LET n == Len(list)
        rotated == [i \in 1..n |-> list[((i + k - 1) % n) + 1]]
    IN  IF reversed THEN [i \in 1..n |-> rotated[n + 1 - i]] ELSE rotated

\* the arguments of the checkNewAchievements calls of the model: unlocked
\* ids in any order, with an id twice and an id that is not defined, and
\* stats at, below and above thresholds
UnlockedLists ==
    {<<>>, <<"first_words">>, <<"streak_starter", "first_words">>,
     <<"wordsmith", "wordsmith">>, <<"retired">>}

StatsOfCalls ==
    [translations : {0, 1, 9, 10, 5000}, streak : {0, 2, 3, 100},
     characters : {0, 9999, 10000, 100000}]

\* checkNewAchievements runs over the definition list in the order of the call
CheckAchievements ==
    /\ checking.pc = "call"
    /\ checking' = [checking EXCEPT
                       !.pc = "returned",
                       !.newAchievements =
                           NewAchievements(
                               Reordered(ACHIEVEMENTS, checking.k,
                                         checking.reversed),
                               checking.currentAchievements, checking.stats)]
    /\ UNCHANGED <<clock, tz, guildConfig, verifiedUser, globalUser, usageLog,
                   immersionBan, immersionWarning, moderationLog, ev, mod,
                   delivered, webhookClients, sending>>

InitAchievements ==
    /\ tz = "fixed"
    /\ clock = HalfDay
    /\ guildConfig = Guild("free", UsageBefore, <<>>)
    /\ verifiedUser = Member(3, 2, 3, Some(0))
    /\ globalUser = Account("free")
    /\ usageLog = <<>>
    /\ immersionBan = <<>>
    /\ immersionWarning = <<>>
    /\ moderationLog = <<>>
    /\ ev = [e \in Events |-> IdleEvent]
    /\ mod = [c \in Calls |-> IdleCall]
    /\ delivered = {}
    /\ webhookClients = <<>>
    /\ sending = IdleSend
    /\ \E currentAchievements \in UnlockedLists, stats \in StatsOfCalls,
          k \in 0..(Len(ACHIEVEMENTS) - 1), reversed \in BOOLEAN :
          checking = [IdleCheck EXCEPT
                         !.pc = "call",
                         !.currentAchievements = currentAchievements,
                         !.stats = stats, !.k = k, !.reversed = reversed]

NextAchievements == CheckAchievements

SpecAchievements == InitAchievements /\ [][NextAchievements]_vars

----------------------------------------------------------------------------
(* Properties of the relay pipeline *)

\* invocation e takes a step
Steps(e) == ev'[e] /= ev[e]

\* invocation e commits its transaction in this step
Commits(e) == ev[e].pc = "commit" /\ Steps(e) /\ ev'[e].outcome /= "commitFailed"

\* the enabled languages other than the source language
TargetLanguages(enabledLanguages, sourceLang) ==
    IF enabledLanguages = <<>> THEN LANGUAGES \ {sourceLang}
    ELSE {enabledLanguages[i] : i \in 1..Len(enabledLanguages)} \ {sourceLang}

LogEntriesOf(e) == {i \in 1..Len(usageLog) : usageLog[i].event = e}

DeliveredOf(e) == {lang \in LANGUAGES : <<e, lang>> \in delivered}

\* C1: a relayed event increases the member's and the guild's monthly usage
\* by exactly len(text) * (number of enabled languages other than the source).
C1_UsageGrowsByCost ==
    [][\A e \in Events :
          Commits(e) =>
             LET cost == ev[e].len * Cardinality(TargetLanguages(
                             ev[e].config.enabledLanguages, ev[e].sourceLang))
             IN  /\ verifiedUser'.monthlyCharacterUsage
                       = verifiedUser.monthlyCharacterUsage + cost
                 /\ guildConfig'.monthlyCharacterUsage
                       = guildConfig.monthlyCharacterUsage + cost]_vars

\* C2: when one delivery of the fan-out fails, the deliveries to the other
\* N-1 languages are still made and one ledger update is committed.
C2_FanOutIsolatesFailure ==
    \A e \in Events :
        ev[e].outcome = "deliverFailed" =>
            /\ Cardinality(DeliveredOf(e)) = Cardinality(LANGUAGES) - 2
            /\ Cardinality(LogEntriesOf(e)) = 1

\* the ledger writes of invocation e, all of them
AllWritten(e) ==
    /\ verifiedUser' =
          [verifiedUser EXCEPT
              !.monthlyCharacterUsage = @ + ev[e].characterCost,
              !.currentStreak = ev[e].newStreak,
              !.longestStreak = ev[e].longestStreak,
              !.lastActiveDate = Some(ev[e].today),
              !.totalTranslations = @ + 1]
    /\ guildConfig'.monthlyCharacterUsage
          = guildConfig.monthlyCharacterUsage + ev[e].characterCost
    /\ Len(usageLog') = Len(usageLog) + 1
    /\ LogEntriesOf(e)' = LogEntriesOf(e) \cup {Len(usageLog')}
    /\ globalUser'.totalTranslationsAllTime
          = globalUser.totalTranslationsAllTime + 1
    /\ globalUser'.totalCharactersAllTime
          = globalUser.totalCharactersAllTime + ev[e].characterCost

NoneWritten ==
    UNCHANGED <<verifiedUser, guildConfig, usageLog, globalUser, sending,
                immersionWarning, checking>>

\* C3: the accounting writes of one event commit as a unit: the step that
\* ends the transaction applies all of them or none of them.
C3_CommitAllOrNothing ==
    [][\A e \in Events :
          (ev[e].pc = "commit" /\ Steps(e)) => (AllWritten(e) \/ NoneWritten)]_vars

\* C3, witness: a transaction that failed after another one had committed
C3_Witness ==
    \E e \in Events :
        /\ ev[e].outcome = "commitFailed"
        /\ LogEntriesOf(e) = {}
        /\ Len(usageLog) = 1

\* C8: within a month a usage counter never decreases: it is reset once, by
\* the first event of the month, and not again.
C8_ResetOncePerMonth ==
    [][/\ (verifiedUser.usageResetDate = startOfMonthOf(clock)
             /\ clock' = clock)
           => verifiedUser'.monthlyCharacterUsage
                 >= verifiedUser.monthlyCharacterUsage
       /\ (guildConfig.usageResetDate = startOfMonthOf(clock)
             /\ clock' = clock)
           => guildConfig'.monthlyCharacterUsage
                 >= guildConfig.monthlyCharacterUsage]_vars

\* the limits as the tier tables give them
PerUserOfGuildTier(tier) ==
    IF tier = "premium" THEN PREMIUM_PER_USER
    ELSE IF tier = "pro" THEN PRO_PER_USER ELSE FREE_PER_USER

PerUserOfUserTier(tier) ==
    IF tier = "premium" THEN USER_PREMIUM_PER_USER
    ELSE IF tier = "pro" THEN USER_PRO_PER_USER ELSE USER_FREE_PER_USER

PerGuildOfGuildTier(tier) ==
    IF tier = "premium" THEN PREMIUM_PER_GUILD
    ELSE IF tier = "pro" THEN PRO_PER_GUILD ELSE FREE_PER_GUILD

\* invocation e decides on the limits in this step
ChecksLimits(e) ==
    /\ ev[e].pc \in {"global", "rollUser", "rollGuild"}
    /\ ev'[e].pc \in {"translate", "done"}

Rejected(e) == ev'[e].outcome \in {"userLimit", "guildLimit"}

\* C4: an event that reaches the limit check is rejected if and only if
\* userUsage + cost > max(personal-tier limit, tenant-tier per-user limit) or
\* tenantUsage + cost > tenant-tier limit; the tenant limit is that of the
\* tenant's tier alone, and a cost that lands exactly on a limit is accepted.
C4_RejectedIffOverLimit ==
    [][\A e \in Events :
          ChecksLimits(e) =>
             LET userUsage == IF ev[e].pc = "rollUser" THEN 0
                              ELSE ev[e].verifiedUser.monthlyCharacterUsage
                 tenantUsage == IF ev[e].pc = "rollGuild" THEN 0
                                ELSE ev[e].config.monthlyCharacterUsage
                 cost == ev[e].len * Cardinality(TargetLanguages(
                             ev[e].config.enabledLanguages, ev[e].sourceLang))
                 personal == PerUserOfUserTier(globalUser.subscriptionTier)
                 tenant == PerUserOfGuildTier(ev[e].config.subscriptionTier)
                 userLimit == IF personal > tenant THEN personal ELSE tenant
                 tenantLimit ==
                     PerGuildOfGuildTier(ev[e].config.subscriptionTier)
             IN  Rejected(e) <=> (\/ userUsage + cost > userLimit
                                  \/ tenantUsage + cost > tenantLimit)]_vars

\* C4, witness: an event was accepted with a cost that landed exactly on the
\* effective user limit, and the next one was rejected
C4_Witness ==
    /\ Len(usageLog) = 1
    /\ LET personal == PerUserOfUserTier(globalUser.subscriptionTier)
           tenant == PerUserOfGuildTier(guildConfig.subscriptionTier)
       IN  verifiedUser.monthlyCharacterUsage
               = IF personal > tenant THEN personal ELSE tenant
    /\ \E e \in Events : ev[e].outcome = "userLimit"

\* the ledger of the member and the guild, and what was delivered
Ledger ==
    <<verifiedUser.monthlyCharacterUsage, verifiedUser.currentStreak,
      verifiedUser.longestStreak, verifiedUser.lastActiveDate,
      verifiedUser.totalTranslations, guildConfig.monthlyCharacterUsage,
      usageLog>>

\* the member has a ban that is active and has not expired
BannedNow ==
    \E i \in 1..Len(immersionBan) :
        /\ immersionBan[i].active
        /\ \/ immersionBan[i].expiresAt = Null
           \/ Val(immersionBan[i].expiresAt) > clock

\* C5: a message from a user who is unverified, has opted out or has an
\* active unexpired ban at the moment of the gate check is never translated
\* or delivered and changes no usage counter, streak field, totalTranslations
\* value or usage-log entry.
C5_GatesStopTheEvent ==
    [][\A e \in Events :
          /\ (Steps(e) /\ ev[e].pc = "verified"
                /\ (~verifiedUser.exists \/ ~verifiedUser.immersionEnabled))
              => ev'[e].pc = "done"
          /\ (Steps(e) /\ ev[e].pc = "banFind" /\ BannedNow)
              => ev'[e].pc = "done"
          /\ (Steps(e) /\ ev[e].pc \in {"config", "verified", "banSweep",
                                         "banFind"})
              => /\ Ledger' = Ledger
                 /\ delivered' = delivered
                 /\ ev'[e].translations = <<>>
          /\ ev[e].pc = "done" => ev'[e] = ev[e]]_vars

\* C5, witness: one message was stopped at the ban gate by a timeout that
\* had not ended, and nothing was relayed
C5_Witness ==
    /\ \E e \in Events : ev[e].outcome = "banned"
    /\ \E i \in 1..Len(immersionBan) :
          immersionBan[i].active /\ immersionBan[i].expiresAt /= Null
    /\ usageLog = <<>> /\ delivered = {}

\* C10: on each committed event the streak follows the whole-calendar-day
\* gap between today and lastActiveDate: gap 0 leaves currentStreak as it
\* was, gap 1 adds 1 and sets longestStreak to the larger of the two, a gap
\* greater than 1 sets currentStreak to 1, and no lastActiveDate sets both
\* currentStreak and longestStreak to 1.
C10_StreakFollowsCalendarGap ==
    [][\A e \in Events :
          Commits(e) =>
             LET row == ev[e].verifiedUser
                 cur == verifiedUser'.currentStreak
                 longest == verifiedUser'.longestStreak
             IN  IF row.lastActiveDate = Null
                 THEN cur = 1 /\ longest = 1
                 ELSE LET gap == DayOf(ev[e].today)
                                    - DayOf(Val(row.lastActiveDate))
                      IN  /\ gap = 0 => cur = row.currentStreak
                          /\ gap = 1 =>
                                /\ cur = row.currentStreak + 1
                                /\ longest = IF row.longestStreak > cur
                                             THEN row.longestStreak ELSE cur
                          /\ gap > 1 => cur = 1]_vars

----------------------------------------------------------------------------
(* Properties of the moderation service *)

\* call c returns in this step
ReturnsNow(c) == mod[c].pc /= "done" /\ mod'[c].pc = "done"

\* ban row i has an expiresAt at or before now
ExpiredAt(i, now) ==
    immersionBan[i].expiresAt /= Null /\ Val(immersionBan[i].expiresAt) <= now

\* C6: a ban whose expiresAt is at or before the time of a read of ban status
\* is never reported as active by that read: the status query, the guild ban
\* list and the per-user moderation history.
C6_ExpiredBanNeverReportedActive ==
    [][\A c \in Calls :
          ReturnsNow(c) =>
              \A i \in mod'[c].active : ~ExpiredAt(i, clock)]_vars

\* C7: at every instant there is at most one ban row with active = true for
\* the (guild, member) pair.
C7_AtMostOneActiveBan == Cardinality(ActiveBans(immersionBan)) <= 1

\* call c fails in this step and leaves the ban rows as they are
FailsWithoutWrite(c) ==
    /\ mod'[c].pc = "done"
    /\ ~mod'[c].success
    /\ immersionBan' = immersionBan

\* C12: ban (and timeout) on a pair that has an active unexpired ban fails
\* and creates no new ban row, and unban on a pair with no active ban fails
\* and modifies no ban row.  The sweep that opens either operation leaves
\* every active unexpired ban as it is.
C12_BanAndUnbanFailWithoutWrite ==
    [][\A c \in Calls :
          /\ (mod[c].pc = "find" /\ mod'[c] /= mod[c]
                /\ mod[c].op \in {"ban", "timeout"} /\ BannedNow)
              => FailsWithoutWrite(c)
          /\ (mod[c].pc = "find" /\ mod'[c] /= mod[c]
                /\ mod[c].op = "unban" /\ ActiveBans(immersionBan) = {})
              => FailsWithoutWrite(c)
          /\ (mod[c].pc = "updateMany" /\ mod'[c] /= mod[c])
              => /\ Len(immersionBan') = Len(immersionBan)
                 /\ \A i \in 1..Len(immersionBan) :
                       (immersionBan[i].active /\ ~ExpiredAt(i, clock))
                           => immersionBan'[i] = immersionBan[i]]_vars

\* C12, witness: a ban or timeout has failed against the timeout that is
\* still running, and no row was added
C12_Witness ==
    /\ \E c \in Calls : mod[c].pc = "done" /\ ~mod[c].success
    /\ BannedNow
    /\ Len(immersionBan) = 1
    /\ moderationLog = <<>>

----------------------------------------------------------------------------
(* Properties of the webhook client cache *)

LastUsedOf(cache, key) == cache[CacheIndex(cache, key)].lastUsed

\* a client that was not cached is acquired while the cache is full
MissWhenFull ==
    /\ Len(webhookClients) = WEBHOOK_CACHE_MAX_SIZE
    /\ CacheKeys(webhookClients') \ CacheKeys(webhookClients) /= {}

\* C9: the cache never holds more than WEBHOOK_CACHE_MAX_SIZE clients, and
\* acquiring a client that is not cached while the cache is full evicts
\* exactly one entry, the least recently used one, before the insertion.
C9_BoundedWithLruEviction ==
    [][/\ Len(webhookClients) <= WEBHOOK_CACHE_MAX_SIZE
       /\ Len(webhookClients') <= WEBHOOK_CACHE_MAX_SIZE
       /\ MissWhenFull =>
             LET evicted == CacheKeys(webhookClients)
                                \ CacheKeys(webhookClients')
             IN  /\ Cardinality(evicted) = 1
                 /\ \A gone \in evicted, kept \in CacheKeys(webhookClients) :
                       LastUsedOf(webhookClients, gone)
                           <= LastUsedOf(webhookClients, kept)
                 /\ \A kept \in CacheKeys(webhookClients) \ evicted :
                       LastUsedOf(webhookClients', kept)
                           = LastUsedOf(webhookClients, kept)]_vars

\* C9, witness: the cache is full again after an eviction: the entry that
\* was least recently used is gone and every fresh client is cached
C9_Witness ==
    /\ Len(webhookClients) = WEBHOOK_CACHE_MAX_SIZE
    /\ (CacheFill + 1 .. CacheFill + NumFreshKeys) \subseteq
           CacheKeys(webhookClients)
    /\ 1 \in CacheKeys(webhookClients)
    /\ 2 \notin CacheKeys(webhookClients)

----------------------------------------------------------------------------
(* Properties of the streak fields *)

\* C11: in every reachable state of the member's row, longestStreak is at
\* least currentStreak, whatever the interleaving of the member's events.
C11_LongestAtLeastCurrent ==
    verifiedUser.longestStreak >= verifiedUser.currentStreak

\* C11, witness: two committed events on consecutive days took the streak
\* past the longest one the row started with, and longestStreak followed
C11_Witness ==
    /\ Len(usageLog) = 2
    /\ verifiedUser.currentStreak = 4
    /\ verifiedUser.longestStreak = 4

----------------------------------------------------------------------------
(* Properties of the events that end before the commit *)

\* the ledger fields that no rollover writes
LedgerButUsage ==
    <<verifiedUser.currentStreak, verifiedUser.longestStreak,
      verifiedUser.lastActiveDate, verifiedUser.totalTranslations, usageLog>>

\* the positions of the handler up to the translation
UpToTranslation ==
    {"config", "verified", "banSweep", "banFind", "global", "rollUser",
     "rollGuild", "translate"}

\* in this step the usage counters stay, or invocation e persists the
\* rollover of the one whose usageResetDate precedes the current month
OnlyRollover(e) ==
    /\ \/ verifiedUser'.monthlyCharacterUsage
             = verifiedUser.monthlyCharacterUsage
       \/ /\ ev[e].pc = "rollUser"
          /\ ev[e].verifiedUser.usageResetDate < ev[e].startOfMonth
          /\ verifiedUser'.monthlyCharacterUsage = 0
    /\ \/ guildConfig'.monthlyCharacterUsage
             = guildConfig.monthlyCharacterUsage
       \/ /\ ev[e].pc = "rollGuild"
          /\ ev[e].config.usageResetDate < ev[e].startOfMonth
          /\ guildConfig'.monthlyCharacterUsage = 0

\* C13, as stated: if the translation fails the event is aborted with nothing
\* delivered and no usage counter, streak field, totalTranslations value or
\* usage-log entry changed.  Stated for the first event while it is the only
\* one: the ledger is still the one the model started with.
C13_FailedTranslationChangesNothing ==
    (ev[1].outcome = "translateFailed" /\ \A e \in Events \ {1} :
                                             ev[e].pc = "idle")
        => /\ guildConfig.monthlyCharacterUsage = UsageBefore
           /\ usageLog = <<>>
           /\ delivered = {}

\* C13, amended: if the translation fails the event is aborted: nothing is
\* delivered and no streak field, totalTranslations value or usage-log entry
\* changes; a usage counter changes only by the monthly rollover that the
\* event persisted before the limit check.
C13_FailedTranslationOnlyRollsOver ==
    [][\A e \in Events :
          /\ (Steps(e) /\ ev[e].pc \in UpToTranslation)
              => /\ LedgerButUsage' = LedgerButUsage
                 /\ delivered' = delivered
                 /\ OnlyRollover(e)
          /\ (Steps(e) /\ ev[e].pc = "translate"
                /\ ev'[e].outcome = "translateFailed")
              => /\ ev'[e].pc = "done"
                 /\ Ledger' = Ledger
          /\ ev[e].outcome = "translateFailed"
              => /\ DeliveredOf(e) = {} /\ LogEntriesOf(e) = {}
                 /\ ev'[e] = ev[e]]_vars

\* C13, witness: the first event of the month persisted the rollover of the
\* guild's counter and then its translation failed
C13_Witness ==
    /\ \E e \in Events : ev[e].outcome = "translateFailed"
    /\ guildConfig.usageResetDate = DayStart(MonthFirstDay)
    /\ guildConfig.monthlyCharacterUsage = 0
    /\ usageLog = <<>> /\ delivered = {}

\* the positions of the handler up to the limit check
UpToLimits ==
    {"config", "verified", "banSweep", "banFind", "global", "rollUser",
     "rollGuild"}

\* C14, as stated: an event rejected for exceeding the user or the tenant
\* limit leaves the stored monthly usage of the user and of the tenant,
\* totalTranslations, the streak fields and the usage log as they were.
\* Stated for the step of the event that ends in the rejection.
C14_RejectionChangesNothing ==
    [][\A e \in Events :
          (ChecksLimits(e) /\ Rejected(e)) => Ledger' = Ledger]_vars

\* C14, amended: an event rejected for exceeding a limit is not translated
\* or delivered and changes no streak field, totalTranslations value or
\* usage-log entry; a usage counter changes only by the monthly rollover
\* that the event persists before it evaluates the limits.
C14_RejectionOnlyRollsOver ==
    [][\A e \in Events :
          /\ (Steps(e) /\ ev[e].pc \in UpToLimits)
              => /\ LedgerButUsage' = LedgerButUsage
                 /\ delivered' = delivered
                 /\ ev'[e].translations = <<>>
                 /\ OnlyRollover(e)
          /\ (ChecksLimits(e) /\ Rejected(e)) => ev'[e].pc = "done"
          /\ ev[e].outcome \in {"userLimit", "guildLimit"}
              => /\ DeliveredOf(e) = {} /\ LogEntriesOf(e) = {}
                 /\ ev'[e] = ev[e]]_vars

\* C14, witness: the first event of the month reset the member's counter
\* and was then rejected for the tenant limit
C14_Witness ==
    /\ \E e \in Events : ev[e].outcome = "guildLimit"
    /\ verifiedUser.usageResetDate = DayStart(MonthFirstDay)
    /\ verifiedUser.monthlyCharacterUsage = 0
    /\ guildConfig.monthlyCharacterUsage
           = getTierLimits(guildConfig.subscriptionTier).perGuild - 2
    /\ usageLog = <<>> /\ delivered = {}

\* C17: a timeout always creates a temporary ban: for every duration that
\* timeoutUser accepts, the expiration is computed as now + duration and the
\* row that is created has that expiresAt and not null (never permanent).
C17_TimeoutBanIsTemporary ==
    [][\A c \in Calls :
          /\ (mod[c].op = "timeout" /\ mod[c].pc = "find"
                /\ mod'[c].pc = "create")
              => mod'[c].expiresAt = Some(clock + Val(mod[c].duration))
          /\ (mod[c].op = "timeout" /\ mod[c].pc = "create"
                /\ mod'[c].pc = "log")
              => /\ Len(immersionBan') = Len(immersionBan) + 1
                 /\ immersionBan'[Len(immersionBan')].expiresAt /= Null
                 /\ immersionBan'[Len(immersionBan')].expiresAt
                        = mod[c].expiresAt]_vars

\* call c takes a step
StepsOf(c) == mod'[c] /= mod[c]

\* the positions at which an operation writes the ban or the warning it is
\* called for
WritePositions == {"create", "update", "warn", "clearWarnings", "updateWarning"}

\* the ModerationLog holds a row that moderator c wrote for operation op
Audited(log, c, op) ==
    \E i \in 1..Len(log) :
        log[i].moderatorId = c /\ log[i].action = ActionOf(op)

Range(seq) == {seq[i] : i \in 1..Len(seq)}

\* the stats on the axis of an achievement
AxisValue(stats, type) ==
    CASE type = "translations" -> stats.translations
      [] type = "streak" -> stats.streak
      [] type = "characters" -> stats.characters

\* C20: the achievement check returns exactly the achievements that are
\* absent from the unlocked set and whose axis value is at or above the
\* threshold, each once, and the returned set is the same for every
\* ordering of the definition list.
C20_ExactlyTheNewlyEarned ==
    checking.pc = "returned" =>
        /\ Range(checking.newAchievements)
              = {a \in Range(ACHIEVEMENTS) :
                    /\ a.id \notin Range(checking.currentAchievements)
                    /\ AxisValue(checking.stats, a.type) >= a.value}
        /\ Len(checking.newAchievements)
              = Cardinality(Range(checking.newAchievements))
        /\ Range(checking.newAchievements)
              = Range(checkNewAchievements(checking.currentAchievements,
                                           checking.stats))

\* C20, witness: over the reversed list, with first_words unlocked and ten
\* translations, the check returned getting_started and not first_words
C20_Witness ==
    /\ checking.pc = "returned" /\ checking.reversed /\ checking.k = 1
    /\ checking.stats.translations = 10
    /\ checking.stats.streak = 3
    /\ checking.currentAchievements = <<"streak_starter", "first_words">>
    /\ Ids(checking.newAchievements) = <<"getting_started">>

\* the awaited webhookClient.send of the call rejects with Unknown Webhook
ReportsUnknownWebhook ==
    /\ sending.pc = "send" /\ sending'.pc = "thrown"
    /\ sending'.code = Some(UnknownWebhook)

\* C15: when a send through a cached handle reports that the credential is
\* no longer valid, the handle is out of the cache when the send returns,
\* the caller gets the error that says the credential must be recreated, and
\* that call made one send attempt only.
C15_UnknownWebhookDropsTheHandle ==
    [][ReportsUnknownWebhook =>
          /\ sending.key \in CacheKeys(webhookClients)
                => Len(webhookClients') = Len(webhookClients) - 1
          /\ sending.key \notin CacheKeys(webhookClients')
          /\ sending'.error = "Webhook was deleted and needs to be recreated"
          /\ sending'.sent = 1 /\ sending'.key = sending.key]_vars

\* C15, witness: a send through a handle that had been cached from the start
\* was answered Unknown Webhook, and the handle is no longer cached
C15_Witness ==
    /\ sending.pc = "thrown" /\ sending.code = Some(UnknownWebhook)
    /\ sending.key = 1
    /\ Len(webhookClients) = CacheFill - 1
    /\ 1 \notin CacheKeys(webhookClients)

\* the interval timer fires in this step
Sweeps == clock' = clock + SweepPeriod

\* C16: each periodic sweep, SweepPeriod after the one before, removes every
\* client whose last use is more than the TTL in the past, however full the
\* cache is, and removes none that was used within the TTL.
C16_SweepRemovesExactlyTheExpired ==
    [][Sweeps =>
          /\ \A key \in CacheKeys(webhookClients) :
                key \in CacheKeys(webhookClients')
                    <=> clock' - LastUsedOf(webhookClients, key)
                            <= WEBHOOK_CACHE_TTL
          /\ CacheKeys(webhookClients') \subseteq CacheKeys(webhookClients)
          /\ \A key \in CacheKeys(webhookClients') :
                LastUsedOf(webhookClients', key)
                    = LastUsedOf(webhookClients, key)]_vars

\* C16, witness: a sweep of the full cache has left the clients last used
\* exactly the TTL before it and has removed those used earlier
C16_Witness ==
    /\ clock = HalfDay + 2 * SweepPeriod
    /\ Len(webhookClients) < WEBHOOK_CACHE_MAX_SIZE - 2
    /\ 3 \in CacheKeys(webhookClients)
    /\ LastUsedOf(webhookClients, 3) = clock - WEBHOOK_CACHE_TTL
    /\ 4 \notin CacheKeys(webhookClients)
    /\ CacheFill + 1 \in CacheKeys(webhookClients)

----------------------------------------------------------------------------
(* Properties of concurrent events of one member *)

\* invocation e passed both limit checks on the rows it had read
WithinBudgetAlone(e) ==
    /\ ev[e].verifiedUser.monthlyCharacterUsage + ev[e].characterCost
           <= ev[e].effectiveUserLimit
    /\ ev[e].config.monthlyCharacterUsage + ev[e].characterCost
           <= getTierLimits(ev[e].config.subscriptionTier).perGuild

\* C21: two events of the same member that run concurrently can each pass
\* the limit check before either commits, so that the committed usage
\* exceeds the limit although each event alone was within budget.  Every
\* event that commits was within budget on the rows it had read, and a
\* commit takes a counter over its limit only when another event has raised
\* the stored counter since that read.
C21_OverrunOnlyByConcurrentCommits ==
    [][\A e \in Events :
          Commits(e) =>
             /\ WithinBudgetAlone(e)
             /\ verifiedUser'.monthlyCharacterUsage > ev[e].effectiveUserLimit
                  => verifiedUser.monthlyCharacterUsage
                         > ev[e].verifiedUser.monthlyCharacterUsage
             /\ guildConfig'.monthlyCharacterUsage
                    > getTierLimits(ev[e].config.subscriptionTier).perGuild
                  => guildConfig.monthlyCharacterUsage
                         > ev[e].config.monthlyCharacterUsage]_vars

\* C21, witness: two events of cost 2 each were committed on a counter that
\* was 2 below the limit: the committed usage is 2 above the limit
C21_Witness ==
    /\ Len(usageLog) = 2
    /\ usageLog[1].characterCount = 2 /\ usageLog[2].characterCount = 2
    /\ verifiedUser.monthlyCharacterUsage
           = getEffectiveUserLimit(globalUser.subscriptionTier,
                                   guildConfig.subscriptionTier) + 2

\* the sum of the character counts of the usage log
RECURSIVE CharactersLogged(_)
CharactersLogged(log) ==
    IF log = <<>> THEN 0
    ELSE log[Len(log)].characterCount
             + CharactersLogged(SubSeq(log, 1, Len(log) - 1))

\* the events whose transaction is committed
Committed == {e \in Events : LogEntriesOf(e) /= {}}

\* C22: when k events of the same member and guild commit within one month
\* in any interleaving, the member's and the guild's monthly usage each are
\* their value before the events plus the sum of the k character costs, and
\* totalTranslations has grown by exactly k; no event is counted twice.
C22_ExactlyOnceAccounting ==
    /\ verifiedUser.monthlyCharacterUsage
           = MemberBefore.monthlyCharacterUsage + CharactersLogged(usageLog)
    /\ guildConfig.monthlyCharacterUsage
           = GuildBefore.monthlyCharacterUsage + CharactersLogged(usageLog)
    /\ verifiedUser.totalTranslations
           = MemberBefore.totalTranslations + Cardinality(Committed)
    /\ Len(usageLog) = Cardinality(Committed)
    /\ \A e \in Events :
          ev[e].outcome = "relayed" \/ ev[e].pc = "achievements"
              <=> e \in Committed

\* C22, witness: two events that ran concurrently (both had read the rows
\* before either committed) are committed, with different costs
C22_Witness ==
    /\ Len(usageLog) = 2
    /\ usageLog[1].characterCount /= usageLog[2].characterCount
    /\ verifiedUser.monthlyCharacterUsage
           = MemberBefore.monthlyCharacterUsage + 6
    /\ verifiedUser.totalTranslations = MemberBefore.totalTranslations + 2

----------------------------------------------------------------------------
(* Properties of sends in flight *)

\* C23: a delivery handle is never destroyed while a send through it is in
\* flight: eviction, the TTL sweep and clearCache that run concurrently with
\* a send leave the client of that send alone.
C23_HandleNotDestroyedInFlight ==
    ~(sending.pc = "send" /\ sending.destroyed)

----------------------------------------------------------------------------
(* Properties of the order of delivery and billing *)

\* C24: no event is billed without having been delivered: whenever the
\* ledger update of an event is committed, a delivery was made before, for
\* every target language counted in the character cost of the event.
C24_BilledOnlyAfterDelivery ==
    [][\A e \in Events :
          Commits(e) =>
              TargetLanguages(ev[e].config.enabledLanguages,
                              ev[e].sourceLang) \subseteq DeliveredOf(e)]_vars

\* C25: the languages an event is translated into and delivered to are
\* exactly the enabled languages other than the source language (every other
\* language when no list is configured): nothing is translated for or
\* delivered to a disabled language or the source language, and the number
\* of translations is the number of target languages used for the cost.
C25_TranslatedIntoEnabledOnly ==
    [][\A e \in Events :
          LET targets == TargetLanguages(ev[e].config.enabledLanguages,
                                         ev[e].sourceLang)
          IN  /\ (ev[e].pc = "translate" /\ ev'[e].pc = "deliver")
                  => /\ Range(ev'[e].translations) = targets
                     /\ Len(ev'[e].translations)
                            = numTargetLanguages(
                                  ev[e].config.enabledLanguages,
                                  ev[e].sourceLang)
              /\ (ev[e].pc = "deliver" /\ Steps(e))
                  => \A lang \in LANGUAGES :
                        <<e, lang>> \in delivered' => lang \in targets]_vars

\* C26: after unban has returned success for the member, the member is not
\* banned (the next ban-status query finds no active ban and the next
\* message passes the ban gate) until a new ban is issued.  Stated for an
\* unban that ran while no other moderation call had begun, so that no ban
\* can have been issued since.
C26_UnbanLiftsTheBan ==
    [][\A c \in Calls :
          (/\ mod[c].op = "unban"
           /\ ReturnsNow(c)
           /\ mod'[c].success
           /\ \A d \in Calls \ {c} : mod[d].pc = "idle")
              => /\ ~BannedNow'
                 /\ ActiveBans(SweepExpired(immersionBan', clock')) = {}]_vars

\* C27: the stored longestStreak of a member never decreases, whatever the
\* sequence and interleaving of the member's relay events.
C27_LongestStreakNeverDecreases ==
    [][verifiedUser'.longestStreak >= verifiedUser.longestStreak]_vars

\* where an invocation of the handler can be
HandlerPositions ==
    {"idle", "config", "verified", "banSweep", "banFind", "global",
     "rollUser", "rollGuild", "translate", "deliver", "commit",
     "achievements", "done"}

\* the ways an invocation ends without having relayed the message
GateRejections ==
    {"ignored", "unmonitored", "unverified", "disabled", "banned",
     "userLimit", "guildLimit"}

Failures == {"translateFailed", "deliverFailed", "commitFailed"}

\* C28: the message handler never propagates an error: every gate rejection
\* and every failure of translation, delivery or persistence ends the
\* processing of that one event, the handler completes normally, and the
\* other events go on as they were.
C28_HandlerNeverPropagates ==
    [][\A e \in Events :
          Steps(e) =>
              /\ ev'[e].pc \in HandlerPositions
              /\ ev'[e].outcome \in GateRejections \cup Failures
                  => ev'[e].pc = "done"
              /\ ev'[e].pc = "done"
                  <=> ev'[e].outcome \in
                          GateRejections \cup Failures \cup {"relayed"}
              /\ \A d \in Events \ {e} : ev'[d] = ev[d]]_vars

\* C28, witness: the translation, a delivery or the transaction of the first
\* event failed, and the event after it was relayed and billed
C28_Witness ==
    /\ ev[1].outcome \in Failures
    /\ ev[2].outcome = "relayed"
    /\ Len(usageLog) = 1 /\ usageLog[1].event = 2

\* C29: when the events of a guild are handled one at a time and no tier
\* changes, then after every event the member's monthly usage is at most the
\* effective user limit and the guild's monthly usage at most the guild
\* limit.
C29_SerialUsageWithinLimits ==
    (\A e \in Events : ev[e].pc \in {"idle", "done"})
        => LET personal == PerUserOfUserTier(globalUser.subscriptionTier)
               tenant == PerUserOfGuildTier(guildConfig.subscriptionTier)
           IN  /\ verifiedUser.monthlyCharacterUsage
                      <= (IF personal > tenant THEN personal ELSE tenant)
               /\ guildConfig.monthlyCharacterUsage
                      <= PerGuildOfGuildTier(guildConfig.subscriptionTier)

\* C29, witness: one event brought the guild's usage exactly to the guild
\* limit, the next one was rejected for it, and both have ended
C29_Witness ==
    /\ \A e \in Events : ev[e].pc = "done"
    /\ ev[1].outcome = "relayed" /\ ev[2].outcome = "guildLimit"
    /\ Len(usageLog) = 1
    /\ guildConfig.monthlyCharacterUsage
           = PerGuildOfGuildTier(guildConfig.subscriptionTier)

\* C30: the stored list of unlocked achievement ids only grows and never
\* holds the same id twice, whatever the sequence and interleaving of the
\* member's events.
C30_AchievementsOnlyGrow ==
    [][/\ Range(verifiedUser.achievements)
              \subseteq Range(verifiedUser'.achievements)
       /\ Cardinality(Range(verifiedUser'.achievements))
              = Len(verifiedUser'.achievements)]_vars

=============================================================================
